---- MODULE Spec2Model ----
(***************************************************************************)
(* The bridge device supervisor of bridge-marker-dp (src/pkg/plugin):      *)
(* BridgeDeviceController (Run, discovery), controlledDevice (the restart  *)
(* loop with backoff) and BridgeDevicePlugin (Start, stopDevicePlugin,     *)
(* healthCheck, ListAndWatch).  Every goroutine is a process with a        *)
(* program counter; an unbuffered channel operation is one joint step of   *)
(* its sender and its receiver.                                            *)
(***************************************************************************)
EXTENDS Integers, Sequences, FiniteSets, TLC

\* ------------------------------------------------------------------ bounds
MaxPlugins == 2      \* BridgeDevicePlugin instances ever constructed
MaxStreams == 1      \* ListAndWatch handlers alive at once on one instance
MaxSlots   == 2      \* maxDevices handed to NewBridgeDevicePlugin
MaxFails   == 5      \* the count of consecutive failed starts saturates here
MaxLoops   == 2      \* restart loops one controlledDevice spawns when driven directly
MaxRequests == 3     \* container requests in one AllocateRequest

NameSeq == <<"br0", "br1">>
Names   == {NameSeq[k] : k \in 1..Len(NameSeq)}
Inst    == 1..MaxPlugins
Streams == 1..MaxStreams
Loops   == 1..MaxLoops
NoInst  == 0

\* ------------------------------------------------------- program constants
\* defaultBackoffTime, in seconds
defaultBackoffTime == <<1, 2, 5, 10>>

Healthy   == "Healthy"
Unhealthy == "Unhealthy"
OperStates == {"up", "down"}

VARIABLES
  \* BridgeDeviceController and the goroutine running Run
  mainPc,            \* "new" | "loop" | "returned"
  permanentPlugins,  \* DeviceName -> instance
  startedPlugins,    \* key -> controlledDevice
  stopClosed,        \* the stop channel handed to Run is closed
  \* ScanForNewDevices
  scanPc,            \* "none" | "subscribe" | "select" | "send" | "exited",
                     \* "failed" when it returned on the subscription error
  pending,           \* the instance ScanForNewDevices is sending on newPlugins
  newPluginsClosed,
  scanSeen,          \* update.Header.Type of the last update it took, "none" before
  panicked,          \* "none", or the reason the process died
  \* BridgeDevicePlugin instances
  deviceName,        \* instance -> DeviceName, "" while not constructed
  devs,              \* instance -> sequence of [ID, Health]
  initialized,
  chanStop,          \* instance -> its stop channel (dpi.stop) is closed
  chanDone,          \* instance -> dpi.done is closed
  chanDereg,         \* instance -> dpi.deregistered is closed
  server,            \* instance -> "none" | "serving" | "stopped"
  registered,        \* instance -> register() succeeded in the current Start
  sockFile,          \* DeviceName -> instance that bound the socket file, or NoInst
  \* controlledDevice restart loop (one goroutine per wrapper)
  loopPc, retries, startErr, fails, waited, prevRetries,
  \* healthCheck goroutine
  hPc,               \* "none" | "init" | "sendInitial" | "select" | "send" | "done"
  hVal, hErr, hCause, fsEvent, observed, delivered,
  \* ListAndWatch handlers: instance -> stream -> record
  lw,
  \* one controlledDevice driven directly through Start() and Stop()
  cdStarted,         \* c.started
  cdStopChan,        \* c.stopChan: the loop whose stop channel it is, 0 for nil
  cdStop,            \* loop -> the stop channel made for it is closed
  cdPc,              \* loop -> "none" | "callStart" | "inStart" | "select" | "exited"
  cdRetries,         \* loop -> retries
  cdNoops,           \* the calls that have returned at their guard so far
  \* the last Allocate call
  allocOn,           \* the plugin it was made on, NoInst before the first
  allocReq,          \* its AllocateRequest
  allocRes           \* the AllocateResponse returned

supVars    == <<mainPc, permanentPlugins, startedPlugins, stopClosed>>
scanVars   == <<scanPc, pending, newPluginsClosed>>
plugVars   == <<deviceName, devs, initialized, chanStop, chanDone, chanDereg,
                server, registered, sockFile>>
loopVars   == <<loopPc, retries, startErr, fails, waited, prevRetries>>
healthVars == <<hPc, hVal, hErr, hCause, fsEvent, observed, delivered>>
wrapVars   == <<cdStarted, cdStopChan, cdStop, cdPc, cdRetries, cdNoops>>
allocVars  == <<allocOn, allocReq, allocRes>>
vars == <<supVars, scanVars, panicked, plugVars, loopVars, healthVars, lw,
          wrapVars, allocVars, scanSeen>>

\* ----------------------------------------------------------------- helpers
Min(a, b) == IF a < b THEN a ELSE b

\* SocketPath(deviceName): <DevicePluginPath>/kubevirt-<deviceName>.sock
SocketPath(d) == <<"/var/lib/kubelet/device-plugins/", "kubevirt-", d, ".sock">>

\* NewBridgeDevicePlugin: resourceName is DeviceNamespace + "/" + deviceName
ResourceNames == [br0 |-> "bridge.network.kubevirt.io/br0",
                  br1 |-> "bridge.network.kubevirt.io/br1"]
ResourceName(d) == ResourceNames[d]

\* the slot IDs counted from 1
NewDevsOneBased(d, maxDevices) ==
  [k \in 1..maxDevices |-> [ID |-> <<d, k>>, Health |-> Healthy]]

\* the slot list built by NewBridgeDevicePlugin: IDs deviceName + Itoa(i)
NewDevs(d, maxDevices) ==
  [k \in 1..maxDevices |-> [ID |-> <<d, k - 1>>, Health |-> Healthy]]

\* the health written to the first slot only
SetHealthFirstSlot(ds, h) ==
  [k \in 1..Len(ds) |-> IF k = 1 THEN [ds[k] EXCEPT !.Health = h] ELSE ds[k]]

\* ListAndWatch's health case: every slot takes the received health
SetHealth(ds, h) == [k \in 1..Len(ds) |-> [ds[k] EXCEPT !.Health = h]]

\* every operational state taken for Healthy
HealthOfAlwaysHealthy(operState) == Healthy

\* healthCheck: OperUp is Healthy, any other state Unhealthy
HealthOf(operState) == IF operState = "up" THEN Healthy ELSE Unhealthy

\* the clamp one short of the last index
NextRetriesEarlyClamp(r, err, backoff) ==
  IF err # "nil" THEN Min(r + 1, Len(backoff) - 2) ELSE 0

\* the index kept after a start that returned nil
NextRetriesNoReset(r, err, backoff) ==
  IF err # "nil" THEN Min(r + 1, Len(backoff) - 1) ELSE r

\* retries = min(retries + 1, len(backoff) - 1) left out
NextRetriesStuck(r, err, backoff) == IF err # "nil" THEN r ELSE 0

\* the restart loop's retry index after dev.Start returned (0-based, as in Go)
NextRetries(r, err, backoff) ==
  IF err # "nil" THEN Min(r + 1, Len(backoff) - 1) ELSE 0

\* backoff[retries] of the Go slice
BackoffAt(backoff, r) == backoff[r + 1]

\* a message on a stream: what the handler sent, and whether the connection
\* was still open when it did (s.Send's error is ignored by the handler)
Msg(kind, devices, ok) == [kind |-> kind, devices |-> devices, ok |-> ok]
NoMsg == Msg("none", <<>>, FALSE)

\* pc: "none" | "select" | "dereg" | "returned"; seq flips with every s.Send
NoStream == [pc |-> "none", alive |-> FALSE, last |-> NoMsg, empties |-> 0,
             seq |-> 0]

\* the state of a controlledDevice whose Start() has run for instance i
Wrapper(i) == [devicePlugin |-> i, started |-> TRUE, stopChan |-> i]

Constructed == {i \in Inst : deviceName[i] # ""}

\* a panic in any goroutine ends the process: no goroutine steps after it
Alive == panicked = "none"

\* ------------------------------------------------------------ Go map steps
MapPut(m, k, v) == [x \in DOMAIN m \cup {k} |-> IF x = k THEN v ELSE m[x]]
MapDelete(m, k) == [x \in DOMAIN m \ {k} |-> m[x]]

\* The controller state startDevice/stopDevice work on, as one record:
\* sp = startedPlugins, cs = chanStop, pc = loopPc, rt = retries.
CtlState == [sp |-> startedPlugins, cs |-> chanStop, pc |-> loopPc, rt |-> retries]

\* controlledDevice.Stop: no-op unless started; closes stopChan
WrapperStop(cs, w) == IF w.started THEN [cs EXCEPT ![w.stopChan] = TRUE] ELSE cs

\* stopDevice deleting the entry without calling Stop on its wrapper
StopDeviceForget(st, name) ==
  IF name \in DOMAIN st.sp THEN [st EXCEPT !.sp = MapDelete(st.sp, name)] ELSE st

\* BridgeDeviceController.stopDevice
StopDevice(st, name) ==
  IF name \in DOMAIN st.sp
    THEN [st EXCEPT !.cs = WrapperStop(st.cs, st.sp[name]),
                    !.sp = MapDelete(st.sp, name)]
    ELSE st

\* BridgeDeviceController.startDevice: stopDevice, then a fresh wrapper whose
\* Start() makes a new stop channel and spawns the restart loop with retries 0
StartDevice(st, name, dev) ==
  LET s1 == StopDevice(st, name)
  IN  [s1 EXCEPT !.pc = [s1.pc EXCEPT ![dev] = "callStart"],
                 !.rt = [s1.rt EXCEPT ![dev] = 0],
                 !.sp = MapPut(s1.sp, name, Wrapper(dev))]

\* startPermanentPlugins: for name, dev := range permanentPlugins
RECURSIVE StartPermanent(_, _)
StartPermanent(st, names) ==
  IF names = {} THEN st
  ELSE LET n == CHOOSE x \in names : TRUE
       IN  StartPermanent(StartDevice(st, n, permanentPlugins[n]), names \ {n})

\* stopAllPlugins: for name := range startedPlugins
RECURSIVE StopAll(_, _)
StopAll(st, names) ==
  IF names = {} THEN st
  ELSE LET n == CHOOSE x \in names : TRUE
       IN  StopAll(StopDevice(st, n), names \ {n})

\* startNewPlugin keyed by the plugin's resourceName instead of its name
NewPluginKeyByResource(dev) == ResourceName(deviceName[dev])

\* startNewPlugin: the key is device.GetDeviceName()
NewPluginKey(dev) == deviceName[dev]

SetCtl(st) ==
  /\ startedPlugins' = st.sp
  /\ chanStop' = st.cs
  /\ loopPc' = st.pc
  /\ retries' = st.rt

\* a flag that is never cleared again
setInitializedSticky(init, i, v) == [init EXCEPT ![i] = TRUE]

\* dpi.setInitialized(v), under dpi.lock
setInitialized(init, i, v) == [init EXCEPT ![i] = v]

\* every plugin taken for initialized
GetInitializedAlways(i) == TRUE

\* BridgeDevicePlugin.GetInitialized
GetInitialized(i) == initialized[i]

\* Initialized: for _, dev := range c.startedPlugins, false at the first
\* plugin that is not initialized, true after the loop
RECURSIVE InitializedOver(_)
InitializedOver(names) ==
  IF names = {} THEN TRUE
  ELSE LET n == CHOOSE x \in names : TRUE
       IN  IF ~GetInitialized(startedPlugins[n].devicePlugin)
             THEN FALSE
             ELSE InitializedOver(names \ {n})

Initialized == InitializedOver(DOMAIN startedPlugins)

\* -------------------------------------------------------------------- Init
\* NewBridgeDeviceController over the first k bridges of NameSeq, each with
\* the plugin GetBridgeDevicePlugins built for it.
InitWith(k) ==
  /\ mainPc = "new"
  /\ permanentPlugins = [n \in {NameSeq[j] : j \in 1..k} |->
                           CHOOSE j \in 1..k : NameSeq[j] = n]
  /\ startedPlugins = [n \in {} |-> Wrapper(1)]
  /\ stopClosed = FALSE
  /\ scanPc = "none"
  /\ pending = NoInst
  /\ newPluginsClosed = FALSE
  /\ scanSeen = "none"
  /\ panicked = "none"
  /\ deviceName = [i \in Inst |-> IF i <= k THEN NameSeq[i] ELSE ""]
  /\ devs = [i \in Inst |-> IF i <= k THEN NewDevs(NameSeq[i], MaxSlots) ELSE <<>>]
  /\ initialized = [i \in Inst |-> FALSE]
  /\ chanStop = [i \in Inst |-> FALSE]
  /\ chanDone = [i \in Inst |-> FALSE]
  /\ chanDereg = [i \in Inst |-> FALSE]
  /\ server = [i \in Inst |-> "none"]
  /\ registered = [i \in Inst |-> FALSE]
  /\ sockFile = [n \in Names |-> NoInst]
  /\ loopPc = [i \in Inst |-> "none"]
  /\ retries = [i \in Inst |-> 0]
  /\ startErr = [i \in Inst |-> "nil"]
  /\ fails = [i \in Inst |-> 0]
  /\ waited = [i \in Inst |-> 0]
  /\ prevRetries = [i \in Inst |-> 0]
  /\ hPc = [i \in Inst |-> "none"]
  /\ hVal = [i \in Inst |-> Healthy]
  /\ hErr = [i \in Inst |-> "nil"]
  /\ hCause = [i \in Inst |-> "none"]
  /\ fsEvent = [i \in Inst |-> FALSE]
  /\ observed = [i \in Inst |-> "none"]
  /\ delivered = [i \in Inst |-> "none"]
  /\ lw = [i \in Inst |-> [s \in Streams |-> NoStream]]
  /\ cdStarted = FALSE
  /\ cdStopChan = 0
  /\ cdStop = [l \in Loops |-> FALSE]
  /\ cdPc = [l \in Loops |-> "none"]
  /\ cdRetries = [l \in Loops |-> 0]
  /\ cdNoops = {}
  /\ allocOn = NoInst
  /\ allocReq = [ContainerRequests |-> <<>>]
  /\ allocRes = [ContainerResponses |-> <<>>]

Init == \E k \in 0..Min(MaxPlugins, Len(NameSeq)) : InitWith(k)

\* ------------------------------------------------- BridgeDeviceController
\* Run up to its select loop: startPermanentPlugins, go ScanForNewDevices
RunStart ==
  /\ Alive
  /\ UNCHANGED <<wrapVars, allocVars, scanSeen>>
  /\ mainPc = "new"
  /\ SetCtl(StartPermanent(CtlState, DOMAIN permanentPlugins))
  /\ scanPc' = "subscribe"
  /\ mainPc' = "loop"
  /\ UNCHANGED <<permanentPlugins, stopClosed, pending, newPluginsClosed, panicked,
                 deviceName, devs, initialized, chanDone, chanDereg, server,
                 registered, sockFile, startErr, fails, waited, prevRetries,
                 healthVars, lw>>

\* case device := <-c.newPlugins, the sender being blocked in its send
RunRecvNewPlugin ==
  /\ Alive
  /\ UNCHANGED <<wrapVars, allocVars, scanSeen>>
  /\ mainPc = "loop"
  /\ scanPc = "send"
  /\ SetCtl(StartDevice(CtlState, NewPluginKey(pending), pending))
  /\ scanPc' = "select"
  /\ pending' = NoInst
  /\ UNCHANGED <<mainPc, permanentPlugins, stopClosed, newPluginsClosed, panicked,
                 deviceName, devs, initialized, chanDone, chanDereg, server,
                 registered, sockFile, startErr, fails, waited, prevRetries,
                 healthVars, lw>>

\* case device := <-c.newPlugins on the closed channel: device is nil and
\* startNewPlugin's device.GetDeviceName() dereferences it
RunRecvClosed ==
  /\ Alive
  /\ UNCHANGED <<wrapVars, allocVars, scanSeen>>
  /\ mainPc = "loop"
  /\ newPluginsClosed
  /\ panicked' = "nil dereference in startNewPlugin"
  /\ UNCHANGED <<supVars, scanVars, plugVars, loopVars, healthVars, lw>>

\* case <-stop: stopAllPlugins, return nil
RunStop ==
  /\ Alive
  /\ UNCHANGED <<wrapVars, allocVars, scanSeen>>
  /\ mainPc = "loop"
  /\ stopClosed
  /\ SetCtl(StopAll(CtlState, DOMAIN startedPlugins))
  /\ mainPc' = "returned"
  /\ UNCHANGED <<permanentPlugins, stopClosed, scanVars, panicked,
                 deviceName, devs, initialized, chanDone, chanDereg, server,
                 registered, sockFile, startErr, fails, waited, prevRetries,
                 healthVars, lw>>

\* whoever owns the stop channel closes it (test-then-close)
CloseStop ==
  /\ Alive
  /\ UNCHANGED <<wrapVars, allocVars, scanSeen>>
  /\ ~stopClosed
  /\ stopClosed' = TRUE
  /\ UNCHANGED <<mainPc, permanentPlugins, startedPlugins, scanVars, panicked,
                 plugVars, loopVars, healthVars, lw>>

\* ------------------------------------------------------ ScanForNewDevices
\* netlink.LinkSubscribe(updates, stop) succeeds
ScanSubscribe ==
  /\ Alive
  /\ UNCHANGED <<wrapVars, allocVars, scanSeen>>
  /\ scanPc = "subscribe"
  /\ scanPc' = "select"
  /\ UNCHANGED <<supVars, pending, newPluginsClosed, panicked, plugVars,
                 loopVars, healthVars, lw>>

\* LinkSubscribe fails: close(stop), return, deferred close(c.newPlugins)
ScanSubscribeFails ==
  /\ Alive
  /\ UNCHANGED <<wrapVars, allocVars, scanSeen>>
  /\ scanPc = "subscribe"
  /\ scanPc' = "failed"
  /\ newPluginsClosed' = TRUE
  /\ IF stopClosed
       THEN panicked' = "close of closed channel: stop" /\ UNCHANGED stopClosed
       ELSE stopClosed' = TRUE /\ UNCHANGED panicked
  /\ UNCHANGED <<mainPc, permanentPlugins, startedPlugins, pending, plugVars,
                 loopVars, healthVars, lw>>

\* a plugin for a bridge whatever the header of the update
StartsPluginAnyHeader(isBridge, hdr) == isBridge

\* link.(*netlink.Bridge) ok && update.Header.Type == unix.RTM_NEWLINK
StartsPlugin(isBridge, hdr) == isBridge /\ hdr = "RTM_NEWLINK"

\* case update := <-updates.  A bridge with RTM_NEWLINK makes a new plugin
\* and blocks sending it on newPlugins; any other update is dropped.
ScanUpdate(n, isBridge, hdr) ==
  /\ Alive
  /\ UNCHANGED <<wrapVars, allocVars>>
  /\ scanSeen' = hdr
  /\ scanPc = "select"
  /\ IF StartsPlugin(isBridge, hdr)
       THEN /\ Constructed # Inst
            /\ LET p == CHOOSE i \in Inst \ Constructed :
                          \A j \in Inst \ Constructed : i <= j
               IN  /\ deviceName' = [deviceName EXCEPT ![p] = n]
                   /\ devs' = [devs EXCEPT ![p] = NewDevs(n, MaxSlots)]
                   /\ pending' = p
            /\ scanPc' = "send"
       ELSE UNCHANGED <<deviceName, devs, pending, scanPc>>
  /\ UNCHANGED <<supVars, newPluginsClosed, panicked, initialized, chanStop,
                 chanDone, chanDereg, server, registered, sockFile, loopVars,
                 healthVars, lw>>

\* case <-stop: return, deferred close(c.newPlugins)
ScanStop ==
  /\ Alive
  /\ UNCHANGED <<wrapVars, allocVars, scanSeen>>
  /\ scanPc = "select"
  /\ stopClosed
  /\ scanPc' = "exited"
  /\ newPluginsClosed' = TRUE
  /\ UNCHANGED <<supVars, pending, panicked, plugVars, loopVars, healthVars, lw>>

\* ------------------------------------------------------- the socket file
\* fsnotify: a Remove of socketPath reaches every healthCheck whose watcher
\* is set up (from its os.Stat until it returns) and whose socketPath it is
Watching(j) == hPc[j] \in {"sendInitial", "send", "select"}

RemoveFileKeeps(n) == UNCHANGED <<sockFile, fsEvent>>

\* os.Remove(socketPath), whoever bound the path
RemoveFile(n) ==
  /\ sockFile' = [sockFile EXCEPT ![n] = NoInst]
  /\ fsEvent' = [j \in Inst |->
                   fsEvent[j] \/ (sockFile[n] # NoInst /\ deviceName[j] = n
                                  /\ SocketPath(deviceName[j]) = SocketPath(n)
                                  /\ Watching(j))]

\* the agent restarts and wipes its plugin directory
RemoveSocket(n) ==
  /\ Alive
  /\ UNCHANGED <<wrapVars, allocVars, scanSeen>>
  /\ sockFile[n] # NoInst
  /\ RemoveFile(n)
  /\ UNCHANGED <<supVars, scanVars, panicked, deviceName, devs, initialized,
                 chanStop, chanDone, chanDereg, server, registered, loopVars,
                 hPc, hVal, hErr, hCause, observed, delivered, lw>>

\* ------------------------------------- controlledDevice.Start restart loop
\* the errors BridgeDevicePlugin.Start returns, by the step that failed
ErrCleanup  == "error removing the socket file"
ErrListen   == "error creating GRPC server socket"
ErrProbe    == "error starting the GRPC server"
ErrRegister == "error registering with device plugin manager"

\* dev.Start returns err before its defer is registered
StartFails(i, err) ==
  /\ loopPc' = [loopPc EXCEPT ![i] = "ret"]
  /\ startErr' = [startErr EXCEPT ![i] = err]

\* dev.Start returns err (or nil) through the deferred stopDevicePlugin
StartEnds(i, err) ==
  /\ loopPc' = [loopPc EXCEPT ![i] = "sdpWait"]
  /\ startErr' = [startErr EXCEPT ![i] = err]

\* BridgeDevicePlugin.Start: dpi.stop/done/deregistered are set, cleanup().
\* The healthCheck of an earlier Start has returned by now.
PStartBegin(i, fault) ==
  /\ Alive
  /\ UNCHANGED <<wrapVars, allocVars, scanSeen>>
  /\ loopPc[i] = "callStart"
  /\ chanDone' = [chanDone EXCEPT ![i] = FALSE]
  /\ chanDereg' = [chanDereg EXCEPT ![i] = FALSE]
  /\ registered' = [registered EXCEPT ![i] = FALSE]
  /\ hPc' = [hPc EXCEPT ![i] = "none"]
  /\ hErr' = [hErr EXCEPT ![i] = "nil"]
  /\ hCause' = [hCause EXCEPT ![i] = "none"]
  /\ IF fault
       THEN StartFails(i, ErrCleanup) /\ UNCHANGED <<sockFile, fsEvent>>
       ELSE /\ RemoveFile(deviceName[i])
            /\ loopPc' = [loopPc EXCEPT ![i] = "listen"]
            /\ UNCHANGED startErr
  /\ UNCHANGED <<supVars, scanVars, panicked, deviceName, devs, initialized,
                 chanStop, server, retries, fails, waited, prevRetries,
                 hVal, observed, delivered, lw>>

\* net.Listen("unix", socketPath); grpc.NewServer; go server.Serve(sock)
PListen(i, fault) ==
  /\ Alive
  /\ UNCHANGED <<wrapVars, allocVars, scanSeen>>
  /\ loopPc[i] = "listen"
  /\ IF fault \/ sockFile[deviceName[i]] # NoInst
       THEN StartFails(i, ErrListen) /\ UNCHANGED <<sockFile, server>>
       ELSE /\ sockFile' = [sockFile EXCEPT ![deviceName[i]] = i]
            /\ server' = [server EXCEPT ![i] = "serving"]
            /\ loopPc' = [loopPc EXCEPT ![i] = "probe"]
            /\ UNCHANGED startErr
  /\ UNCHANGED <<supVars, scanVars, panicked, deviceName, devs, initialized,
                 chanStop, chanDone, chanDereg, registered, retries, fails,
                 waited, prevRetries, healthVars, lw>>

\* waitForGRPCServer(socketPath, connectionTimeout)
PProbe(i, fault) ==
  /\ Alive
  /\ UNCHANGED <<wrapVars, allocVars, scanSeen>>
  /\ loopPc[i] = "probe"
  /\ IF fault \/ sockFile[deviceName[i]] = NoInst
       THEN StartEnds(i, ErrProbe)
       ELSE loopPc' = [loopPc EXCEPT ![i] = "register"] /\ UNCHANGED startErr
  /\ UNCHANGED <<supVars, scanVars, panicked, plugVars, retries, fails, waited,
                 prevRetries, healthVars, lw>>

\* dpi.register()
PRegister(i, fault) ==
  /\ Alive
  /\ UNCHANGED <<wrapVars, allocVars, scanSeen>>
  /\ loopPc[i] = "register"
  /\ IF fault
       THEN StartEnds(i, ErrRegister) /\ UNCHANGED registered
       ELSE /\ registered' = [registered EXCEPT ![i] = TRUE]
            /\ loopPc' = [loopPc EXCEPT ![i] = "launch"]
            /\ UNCHANGED startErr
  /\ UNCHANGED <<supVars, scanVars, panicked, deviceName, devs, initialized,
                 chanStop, chanDone, chanDereg, server, sockFile, retries, fails,
                 waited, prevRetries, healthVars, lw>>

\* go healthCheck(); dpi.setInitialized(true)
PLaunch(i) ==
  /\ Alive
  /\ UNCHANGED <<wrapVars, allocVars, scanSeen>>
  /\ loopPc[i] = "launch"
  /\ hPc' = [hPc EXCEPT ![i] = "init"]
  /\ hErr' = [hErr EXCEPT ![i] = "nil"]
  /\ hCause' = [hCause EXCEPT ![i] = "none"]
  /\ fsEvent' = [fsEvent EXCEPT ![i] = FALSE]
  /\ initialized' = setInitialized(initialized, i, TRUE)
  /\ loopPc' = [loopPc EXCEPT ![i] = "wait"]
  /\ UNCHANGED <<supVars, scanVars, panicked, deviceName, devs, chanStop, chanDone,
                 chanDereg, server, registered, sockFile, retries, startErr,
                 fails, waited, prevRetries, hVal, observed, delivered, lw>>

\* err = <-errChan: healthCheck's result (Serve returns only on server.Stop)
PWait(i) ==
  /\ Alive
  /\ UNCHANGED <<wrapVars, allocVars, scanSeen>>
  /\ loopPc[i] = "wait"
  /\ hPc[i] = "done"
  /\ StartEnds(i, hErr[i])
  /\ UNCHANGED <<supVars, scanVars, panicked, plugVars, retries, fails, waited,
                 prevRetries, healthVars, lw>>

\* A handler that is about to close deregistered does so well within the
\* one-second grace: the ticker case is taken only when there is none.
HandlerLeaving(i) ==
  \E s \in Streams :
     \/ lw[i][s].pc = "dereg"
     \/ lw[i][s].pc = "select" /\ (chanStop[i] \/ chanDone[i])

\* stopDevicePlugin: select { case <-dpi.deregistered: case <-ticker.C: }
PSdpWait(i) ==
  /\ Alive
  /\ UNCHANGED <<wrapVars, allocVars, scanSeen>>
  /\ loopPc[i] = "sdpWait"
  /\ chanDereg[i] \/ ~HandlerLeaving(i)
  /\ loopPc' = [loopPc EXCEPT ![i] = "sdpStop"]
  /\ UNCHANGED <<supVars, scanVars, panicked, plugVars, retries, startErr, fails,
                 waited, prevRetries, healthVars, lw>>

\* dpi.server.Stop(): every open connection is closed, and so is the unix
\* listener, whose Close unlinks the path it was bound to
PSdpStop(i) ==
  /\ Alive
  /\ UNCHANGED <<wrapVars, allocVars, scanSeen>>
  /\ loopPc[i] = "sdpStop"
  /\ server' = [server EXCEPT ![i] = "stopped"]
  /\ RemoveFile(deviceName[i])
  /\ lw' = [lw EXCEPT ![i] = [s \in Streams |-> [lw[i][s] EXCEPT !.alive = FALSE]]]
  /\ loopPc' = [loopPc EXCEPT ![i] = "sdpUninit"]
  /\ UNCHANGED <<supVars, scanVars, panicked, deviceName, devs, initialized,
                 chanStop, chanDone, chanDereg, registered, retries, startErr,
                 fails, waited, prevRetries, hPc, hVal, hErr, hCause, observed, delivered>>

\* dpi.setInitialized(false)
PSdpUninit(i) ==
  /\ Alive
  /\ UNCHANGED <<wrapVars, allocVars, scanSeen>>
  /\ loopPc[i] = "sdpUninit"
  /\ initialized' = setInitialized(initialized, i, FALSE)
  /\ loopPc' = [loopPc EXCEPT ![i] = "sdpCleanup"]
  /\ UNCHANGED <<supVars, scanVars, panicked, deviceName, devs, chanStop, chanDone,
                 chanDereg, server, registered, sockFile, retries, startErr,
                 fails, waited, prevRetries, healthVars, lw>>

\* return dpi.cleanup(), then the deferred test-then-close of dpi.done
PSdpCleanup(i) ==
  /\ Alive
  /\ UNCHANGED <<wrapVars, allocVars, scanSeen>>
  /\ loopPc[i] = "sdpCleanup"
  /\ RemoveFile(deviceName[i])
  /\ chanDone' = [chanDone EXCEPT ![i] = TRUE]
  /\ loopPc' = [loopPc EXCEPT ![i] = "ret"]
  /\ UNCHANGED <<supVars, scanVars, panicked, deviceName, devs, initialized,
                 chanStop, chanDereg, server, registered, retries, startErr,
                 fails, waited, prevRetries, hPc, hVal, hErr, hCause, observed, delivered, lw>>

\* the loop after dev.Start returned: the retry index, then the select
LoopAfterStart(i) ==
  /\ Alive
  /\ UNCHANGED <<wrapVars, allocVars, scanSeen>>
  /\ loopPc[i] = "ret"
  /\ LET r == NextRetries(retries[i], startErr[i], defaultBackoffTime)
     IN  /\ retries' = [retries EXCEPT ![i] = r]
         /\ waited' = [waited EXCEPT ![i] = BackoffAt(defaultBackoffTime, r)]
  /\ prevRetries' = [prevRetries EXCEPT ![i] = retries[i]]
  /\ fails' = [fails EXCEPT ![i] =
                 IF startErr[i] # "nil" THEN Min(fails[i] + 1, MaxFails) ELSE 0]
  /\ loopPc' = [loopPc EXCEPT ![i] = "backoff"]
  /\ UNCHANGED <<supVars, scanVars, panicked, plugVars, startErr, healthVars, lw>>

\* case <-stop: return
LoopStop(i) ==
  /\ Alive
  /\ UNCHANGED <<wrapVars, allocVars, scanSeen>>
  /\ loopPc[i] = "backoff"
  /\ chanStop[i]
  /\ loopPc' = [loopPc EXCEPT ![i] = "exited"]
  /\ UNCHANGED <<supVars, scanVars, panicked, plugVars, retries, startErr, fails,
                 waited, prevRetries, healthVars, lw>>

\* case <-time.After(backoff[retries]): continue.  A stop channel closed
\* before the wait began wins the select, the timer not having elapsed; and
\* the wait, a second at least, outlasts a handler that is leaving.
LoopTimer(i) ==
  /\ Alive
  /\ UNCHANGED <<wrapVars, allocVars, scanSeen>>
  /\ loopPc[i] = "backoff"
  /\ ~chanStop[i]
  /\ ~HandlerLeaving(i)
  /\ loopPc' = [loopPc EXCEPT ![i] = "callStart"]
  /\ UNCHANGED <<supVars, scanVars, panicked, plugVars, retries, startErr, fails,
                 waited, prevRetries, healthVars, lw>>

\* ------------------------------------------------------------ healthCheck
\* blocked in dpi.health <- deviceHealth{...}: the initial bridge check
\* ("sendInitial") or the update case of the loop ("send")
Publishing(i) == hPc[i] \in {"sendInitial", "send"}

HealthEnds(i, err, cause) ==
  /\ hPc' = [hPc EXCEPT ![i] = "done"]
  /\ hErr' = [hErr EXCEPT ![i] = err]
  /\ hCause' = [hCause EXCEPT ![i] = cause]

\* netlink.LinkByName: LinkNotFoundError publishes Unhealthy, a link found
\* publishes by its OperState
InitialHealth(st) == IF st = "absent" THEN Unhealthy ELSE HealthOf(st)

\* Up to the first publish: the netlink handle, LinkSubscribe, the fsnotify
\* watcher, os.Stat(socketPath), LinkByName.  st is what the kernel answers.
HInit(i, fault, st) ==
  /\ Alive
  /\ UNCHANGED <<wrapVars, allocVars, scanSeen>>
  /\ hPc[i] = "init"
  /\ IF fault \/ sockFile[deviceName[i]] = NoInst
       THEN HealthEnds(i, "err", "error") /\ UNCHANGED <<hVal, observed>>
       ELSE /\ hPc' = [hPc EXCEPT ![i] = "sendInitial"]
            /\ hVal' = [hVal EXCEPT ![i] = InitialHealth(st)]
            /\ observed' = [observed EXCEPT ![i] = st]
            /\ UNCHANGED <<hErr, hCause>>
  /\ UNCHANGED <<supVars, scanVars, panicked, plugVars, loopVars, fsEvent,
                 delivered, lw>>

\* case <-dpi.stop: return nil
HStop(i) ==
  /\ Alive
  /\ UNCHANGED <<wrapVars, allocVars, scanSeen>>
  /\ hPc[i] = "select"
  /\ chanStop[i]
  /\ HealthEnds(i, "nil", "stop")
  /\ UNCHANGED <<supVars, scanVars, panicked, plugVars, loopVars, hVal, fsEvent,
                 observed, delivered, lw>>

\* case update := <-updates: an update for another link is dropped, one for
\* deviceName is published by its OperState
HLinkUpdate(i, n, st) ==
  /\ Alive
  /\ UNCHANGED <<wrapVars, allocVars, scanSeen>>
  /\ hPc[i] = "select"
  /\ IF n = deviceName[i]
       THEN /\ hPc' = [hPc EXCEPT ![i] = "send"]
            /\ hVal' = [hVal EXCEPT ![i] = HealthOf(st)]
            /\ observed' = [observed EXCEPT ![i] = st]
       ELSE UNCHANGED <<hPc, hVal, observed>>
  /\ UNCHANGED <<supVars, scanVars, panicked, plugVars, loopVars, hErr, hCause,
                 fsEvent, delivered, lw>>

\* case event := <-watcher.Events with Name == socketPath and Op Remove
HSockRemoved(i) ==
  /\ Alive
  /\ UNCHANGED <<wrapVars, allocVars, scanSeen>>
  /\ hPc[i] = "select"
  /\ fsEvent[i]
  /\ HealthEnds(i, "nil", "removed")
  /\ fsEvent' = [fsEvent EXCEPT ![i] = FALSE]
  /\ UNCHANGED <<supVars, scanVars, panicked, plugVars, loopVars, hVal, observed,
                 delivered, lw>>

\* ----------------------------------------------------------- ListAndWatch
\* The agent dials the socket file and opens a stream on the plugin that
\* registered; the handler sends dpi.devs and enters its select.  A slot
\* whose handler has returned is free for the next stream.
LwOpen(i, s) ==
  /\ Alive
  /\ UNCHANGED <<wrapVars, allocVars, scanSeen>>
  /\ lw[i][s].pc \in {"none", "returned"}
  /\ \A t \in Streams : t < s => lw[i][t].pc \notin {"none", "returned"}
  /\ server[i] = "serving"
  /\ registered[i]
  /\ sockFile[deviceName[i]] = i
  /\ lw' = [lw EXCEPT ![i][s] = [pc |-> "select", alive |-> TRUE,
                                 last |-> Msg("initial", devs[i], TRUE),
                                 empties |-> 0, seq |-> 1 - lw[i][s].seq]]
  /\ UNCHANGED <<supVars, scanVars, panicked, plugVars, loopVars, healthVars>>

\* case devHealth := <-dpi.health, healthCheck being blocked in its send:
\* every slot takes the health, the whole list is sent
LwRecvHealth(i, s) ==
  /\ Alive
  /\ UNCHANGED <<wrapVars, allocVars, scanSeen>>
  /\ lw[i][s].pc = "select"
  /\ Publishing(i)
  /\ hPc' = [hPc EXCEPT ![i] = "select"]
  /\ devs' = [devs EXCEPT ![i] = SetHealth(devs[i], hVal[i])]
  /\ delivered' = [delivered EXCEPT ![i] = hVal[i]]
  /\ lw' = [lw EXCEPT ![i][s] =
                 [@ EXCEPT !.last = Msg("health", SetHealth(devs[i], hVal[i]),
                                        lw[i][s].alive),
                           !.seq = 1 - @]]
  /\ UNCHANGED <<supVars, scanVars, panicked, deviceName, initialized, chanStop,
                 chanDone, chanDereg, server, registered, sockFile, loopVars,
                 hVal, hErr, hCause, fsEvent, observed>>

\* case <-dpi.stop / case <-dpi.done: done = true, break
LwSignalled(i, s) ==
  /\ Alive
  /\ UNCHANGED <<wrapVars, allocVars, scanSeen>>
  /\ lw[i][s].pc = "select"
  /\ chanStop[i] \/ chanDone[i]
  /\ lw' = [lw EXCEPT ![i][s].pc = "dereg"]
  /\ UNCHANGED <<supVars, scanVars, panicked, plugVars, loopVars, healthVars>>

\* s.Send of the empty list, close(dpi.deregistered), return nil
LwDeregister(i, s) ==
  /\ Alive
  /\ UNCHANGED <<wrapVars, allocVars, scanSeen>>
  /\ lw[i][s].pc = "dereg"
  /\ lw' = [lw EXCEPT ![i][s] = [@ EXCEPT !.pc = "returned",
                                          !.last = Msg("empty", <<>>, lw[i][s].alive),
                                          !.empties = @ + 1,
                                          !.seq = 1 - @]]
  /\ IF chanDereg[i]
       THEN panicked' = "close of closed channel: deregistered" /\ UNCHANGED chanDereg
       ELSE chanDereg' = [chanDereg EXCEPT ![i] = TRUE] /\ UNCHANGED panicked
  /\ UNCHANGED <<supVars, scanVars, deviceName, devs, initialized, chanStop,
                 chanDone, server, registered, sockFile, loopVars, healthVars>>

\* ------------------------------------- controlledDevice driven directly
\* A caller holding one controlledDevice calls Start() and Stop() on it in
\* any order, one call at a time; dev is a Device whose Start(stop) returns
\* when it will, with an error or nil.

\* Start() on a wrapper that is started spawning a loop all the same
StartReturnsAtOnceNever(started) == FALSE

\* if c.started { return }
StartReturnsAtOnce(started) == started

\* if !c.started { return }
StopReturnsAtOnce(started) == ~started

\* controlledDevice.Start(): stop := make(chan struct{}), the restart loop is
\* spawned with retries 0, c.stopChan = stop, c.started = true
ControlledStart ==
  /\ Alive
  /\ IF StartReturnsAtOnce(cdStarted)
       THEN /\ cdNoops' = cdNoops \cup {"Start"}
            /\ UNCHANGED <<cdStarted, cdStopChan, cdStop, cdPc, cdRetries>>
       ELSE /\ \E l \in Loops : cdPc[l] = "none"
            /\ LET l == CHOOSE x \in Loops :
                          cdPc[x] = "none" /\ \A y \in Loops : cdPc[y] = "none" => x <= y
               IN  /\ cdPc' = [cdPc EXCEPT ![l] = "callStart"]
                   /\ cdRetries' = [cdRetries EXCEPT ![l] = 0]
                   /\ cdStopChan' = l
            /\ cdStarted' = TRUE
            /\ UNCHANGED <<cdStop, cdNoops>>
  /\ UNCHANGED <<supVars, scanVars, panicked, plugVars, loopVars, healthVars, lw,
                 allocVars, scanSeen>>

\* controlledDevice.Stop(): close(c.stopChan), c.stopChan = nil,
\* c.started = false
ControlledStop ==
  /\ Alive
  /\ IF StopReturnsAtOnce(cdStarted)
       THEN /\ cdNoops' = cdNoops \cup {"Stop"}
            /\ UNCHANGED <<cdStarted, cdStopChan, cdStop, panicked>>
       ELSE /\ IF cdStopChan = 0
                 THEN panicked' = "close of nil channel" /\ UNCHANGED cdStop
                 ELSE IF cdStop[cdStopChan]
                   THEN panicked' = "close of closed channel: stopChan"
                        /\ UNCHANGED cdStop
                   ELSE cdStop' = [cdStop EXCEPT ![cdStopChan] = TRUE]
                        /\ UNCHANGED panicked
            /\ cdStopChan' = 0
            /\ cdStarted' = FALSE
            /\ UNCHANGED cdNoops
  /\ UNCHANGED <<supVars, scanVars, plugVars, loopVars, healthVars, lw, cdPc,
                 cdRetries, allocVars, scanSeen>>

\* err := dev.Start(stop) is called
ControlledCallStart(l) ==
  /\ Alive
  /\ cdPc[l] = "callStart"
  /\ cdPc' = [cdPc EXCEPT ![l] = "inStart"]
  /\ UNCHANGED <<supVars, scanVars, panicked, plugVars, loopVars, healthVars, lw,
                 allocVars, scanSeen, cdStarted, cdStopChan, cdStop, cdRetries, cdNoops>>

\* dev.Start returns err: the retry index, then the select
ControlledStartReturns(l, err) ==
  /\ Alive
  /\ cdPc[l] = "inStart"
  /\ cdRetries' = [cdRetries EXCEPT ![l] =
                      NextRetries(cdRetries[l], err, defaultBackoffTime)]
  /\ cdPc' = [cdPc EXCEPT ![l] = "select"]
  /\ UNCHANGED <<supVars, scanVars, panicked, plugVars, loopVars, healthVars, lw,
                 allocVars, scanSeen, cdStarted, cdStopChan, cdStop, cdNoops>>

\* case <-stop: return
ControlledLoopStop(l) ==
  /\ Alive
  /\ cdPc[l] = "select"
  /\ cdStop[l]
  /\ cdPc' = [cdPc EXCEPT ![l] = "exited"]
  /\ UNCHANGED <<supVars, scanVars, panicked, plugVars, loopVars, healthVars, lw,
                 allocVars, scanSeen, cdStarted, cdStopChan, cdStop, cdRetries, cdNoops>>

\* case <-time.After(backoff[retries]): continue
ControlledLoopTimer(l) ==
  /\ Alive
  /\ cdPc[l] = "select"
  /\ ~cdStop[l]
  /\ cdPc' = [cdPc EXCEPT ![l] = "callStart"]
  /\ UNCHANGED <<supVars, scanVars, panicked, plugVars, loopVars, healthVars, lw,
                 allocVars, scanSeen, cdStarted, cdStopChan, cdStop, cdRetries, cdNoops>>

\* ---------------------------------------------------------------- Allocate
\* new(pluginapi.ContainerAllocateResponse)
EmptyContainerResponse ==
  [Envs |-> <<>>, Mounts |-> <<>>, Devices |-> <<>>, Annotations |-> <<>>]

\* Allocate: ContainerResponses is the one-element list of a new
\* ContainerAllocateResponse, whatever r.ContainerRequests holds
Allocate(r) == [ContainerResponses |-> <<EmptyContainerResponse>>]

\* the AllocateRequests for plugin i: up to MaxRequests container requests,
\* each asking for some of the plugin's slots
AllocateRequests(i) ==
  LET ids == {devs[i][k].ID : k \in 1..Len(devs[i])}
  IN  UNION {[ContainerRequests : [1..n -> [DevicesIDs : SUBSET ids]]] :
               n \in 0..MaxRequests}

\* the agent calls Allocate(ctx, r) on plugin i
AllocateCall(i, r) ==
  /\ Alive
  /\ i \in Constructed
  /\ allocOn' = i
  /\ allocReq' = r
  /\ allocRes' = Allocate(r)
  /\ UNCHANGED <<supVars, scanVars, panicked, plugVars, loopVars, healthVars, lw,
                 wrapVars, scanSeen>>

\* ------------------------------------------------------------------- Next
\* F: whether the calls Start and healthCheck make may fail (a bind, probe,
\* registration, netlink or watcher error); S: the stream slots in use.
Faults == BOOLEAN
NoFaults == {FALSE}

Supervisor ==
  \/ RunStart
  \/ RunRecvClosed
  \/ RunStop
  \/ CloseStop

Subscription ==
  \/ ScanSubscribe
  \/ ScanSubscribeFails
  \/ ScanStop

Discovery ==
  \/ \E n \in Names, b \in BOOLEAN, h \in {"RTM_NEWLINK", "RTM_DELLINK"} :
        ScanUpdate(n, b, h)
  \/ RunRecvNewPlugin

Plugin(i, F) ==
  \/ \E f \in F : PStartBegin(i, f)
  \/ \E f \in F : PListen(i, f)
  \/ \E f \in F : PProbe(i, f)
  \/ \E f \in F : PRegister(i, f)
  \/ PLaunch(i)
  \/ PWait(i)
  \/ PSdpWait(i)
  \/ PSdpStop(i)
  \/ PSdpUninit(i)
  \/ PSdpCleanup(i)
  \/ LoopAfterStart(i)
  \/ LoopStop(i)
  \/ LoopTimer(i)

HealthStart(i, F) ==
  \E f \in F, st \in OperStates \cup {"absent"} : HInit(i, f, st)

Health(i, F) ==
  \/ HealthStart(i, F)
  \/ HStop(i)
  \/ HSockRemoved(i)

LinkUpdates(i) == \E n \in Names, st \in OperStates : HLinkUpdate(i, n, st)

Handler(i, S) ==
  \E s \in S :
     \/ LwOpen(i, s)
     \/ LwRecvHealth(i, s)
     \/ LwSignalled(i, s)
     \/ LwDeregister(i, s)

AgentRestart == \E n \in Names : RemoveSocket(n)

\* The supervisor with up to MaxPlugins plugins, permanent and discovered,
\* up to the point where the agent opens a stream: no call fails and no
\* stream is opened.  Run, ScanForNewDevices and the wrappers read nothing
\* of a plugin's state, so their behaviours are the same with streams.
Next ==
  \/ Supervisor
  \/ Subscription
  \/ Discovery
  \/ \E i \in Inst : Plugin(i, NoFaults) \/ HealthStart(i, NoFaults)

Spec == Init /\ [][Next]_vars

\* One permanent plugin under Run, with every failure, link update, agent
\* restart and stream of the model; discovery finds no new bridge.
InitPlugin == InitWith(1)

NextPlugin ==
  \/ Supervisor
  \/ Subscription
  \/ AgentRestart
  \/ \E i \in Inst : Plugin(i, Faults) \/ Health(i, Faults)
                       \/ LinkUpdates(i) \/ Handler(i, Streams)

SpecPlugin == InitPlugin /\ [][NextPlugin]_vars

\* A ListAndWatch handler is a goroutine of the grpc server: it is scheduled
\* whenever a case of its select is ready.
FairPlugin ==
  /\ SpecPlugin
  /\ \A i \in Inst, s \in Streams :
        WF_vars(LwRecvHealth(i, s) \/ LwSignalled(i, s) \/ LwDeregister(i, s))

\* One permanent plugin with its stream while bridges are deleted: the
\* discovery task takes the updates it starts no plugin for, the health loop
\* the updates of its bridge; no call fails.
Dropped ==
  \/ \E n \in Names, b \in BOOLEAN : ScanUpdate(n, b, "RTM_DELLINK")
  \/ \E n \in Names : ScanUpdate(n, FALSE, "RTM_NEWLINK")

NextDeletion ==
  \/ Supervisor
  \/ Subscription
  \/ Dropped
  \/ AgentRestart
  \/ \E i \in Inst : Plugin(i, NoFaults) \/ Health(i, NoFaults)
                       \/ LinkUpdates(i) \/ Handler(i, Streams)

SpecDeletion == InitPlugin /\ [][NextDeletion]_vars

\* One controlledDevice around the plugin of br0, driven directly.
ControlledLoop(l) ==
  \/ ControlledCallStart(l)
  \/ \E err \in {"nil", "err"} : ControlledStartReturns(l, err)
  \/ ControlledLoopStop(l)
  \/ ControlledLoopTimer(l)

NextWrapper ==
  \/ ControlledStart
  \/ ControlledStop
  \/ \E l \in Loops : ControlledLoop(l)

SpecWrapper == InitPlugin /\ [][NextWrapper]_vars

\* Allocate called on the plugins of two bridges with every request of the
\* bounds.
InitAllocate == InitWith(2)

NextAllocate == \E i \in Inst : \E r \in AllocateRequests(i) : AllocateCall(i, r)

SpecAllocate == InitAllocate /\ [][NextAllocate]_vars

\* Spec with the Go scheduler's fairness: a goroutine that can step does so.
\* Nothing is promised of the environment: no link update has to arrive and
\* nobody has to close stop.
FairSpec ==
  /\ Spec
  /\ WF_vars(RunStart \/ RunRecvNewPlugin \/ RunRecvClosed \/ RunStop)
  /\ WF_vars(Subscription)
  /\ \A i \in Inst : WF_vars(Plugin(i, NoFaults) \/ HealthStart(i, NoFaults))

\* ================================================================ claims
LastIndex == Len(defaultBackoffTime) - 1

\* between the entry of BridgeDevicePlugin.Start and the end of its deferred
\* stopDevicePlugin
InStart(i) ==
  loopPc[i] \in {"listen", "probe", "register", "launch", "wait",
                 "sdpWait", "sdpStop", "sdpUninit", "sdpCleanup"}

\* C1 (P1/I4, uniqueness): in every reachable state no two entries of the
\* running map wrap Bridge Plugins of the same DeviceName.
C1_Uniqueness ==
  \A k1, k2 \in DOMAIN startedPlugins :
     deviceName[startedPlugins[k1].devicePlugin]
        = deviceName[startedPlugins[k2].devicePlugin] => k1 = k2

\* a discovered plugin has replaced the running entry of its bridge
C1_Witness ==
  /\ mainPc = "loop"
  /\ \E i \in Constructed :
        /\ chanStop[i]
        /\ deviceName[i] \in DOMAIN startedPlugins
        /\ startedPlugins[deviceName[i]].devicePlugin # i

\* C2 (at most one running instance per bridge): never are two Bridge Plugin
\* instances of one DeviceName both inside Start.
C2_OneInstanceInStart ==
  \A i, j \in Constructed :
     (i # j /\ deviceName[i] = deviceName[j]) => ~(InStart(i) /\ InStart(j))

\* C3 (P5, as amended): after the k-th consecutive failed start the loop
\* waits backoff[min(k, len(backoff)-1)], and the index stays within the
\* slice.  fails saturates at MaxFails, past the last index.
C3_BackoffSaturation ==
  \A i \in Inst :
     /\ retries[i] \in 0..LastIndex
     /\ (loopPc[i] = "backoff" /\ fails[i] >= 1) =>
           waited[i] = defaultBackoffTime[Min(fails[i], LastIndex) + 1]

\* more consecutive failures than the slice has entries, waiting its last
C3_Witness ==
  \E i \in Inst :
     /\ loopPc[i] = "backoff"
     /\ fails[i] > Len(defaultBackoffTime)
     /\ waited[i] = defaultBackoffTime[Len(defaultBackoffTime)]

\* C3 as claimed: the k-th consecutive failure waits backoff[min(k-1, len-1)]
C3_Original ==
  \A i \in Inst :
     /\ retries[i] \in 0..LastIndex
     /\ (loopPc[i] = "backoff" /\ fails[i] >= 1) =>
           waited[i] = defaultBackoffTime[Min(fails[i] - 1, LastIndex) + 1]

\* C4 (P6, agent-restart recovery): when healthCheck returns on the removal
\* of the socket file it returns nil, Start returns nil, the loop resets the
\* retry index to 0 and waits backoff[0], and its next step, unless stop is
\* closed, is to call Start again.
C4_RemovalState ==
  \A i \in Inst :
     hCause[i] = "removed" =>
       /\ hErr[i] = "nil"
       /\ loopPc[i] \in {"sdpWait", "sdpStop", "sdpUninit", "sdpCleanup", "ret"}
             => startErr[i] = "nil"
       /\ loopPc[i] = "backoff"
             => retries[i] = 0 /\ waited[i] = defaultBackoffTime[1]

C4_RemovalStep ==
  \A i \in Inst :
     (loopPc[i] = "backoff" /\ hCause[i] = "removed" /\ loopPc'[i] # "backoff")
        => \/ loopPc'[i] = "callStart" /\ ~chanStop[i]
           \/ loopPc'[i] = "exited" /\ chanStop[i]

C5_SupervisorShutdown ==
  (stopClosed /\ panicked # "close of closed channel: stop") =>
     \/ mainPc = "returned" /\ DOMAIN startedPlugins = {}
     \/ Alive /\ mainPc \in {"new", "loop"}

\* a step of one of the program's goroutines (the agent, the kernel and the
\* owner of stop are the environment)
ProgramStep ==
  \/ RunStart \/ RunRecvClosed \/ RunStop
  \/ Subscription
  \/ \E i \in Inst :
        \/ Plugin(i, Faults)
        \/ Health(i, Faults)
        \/ \E s \in Streams :
              LwRecvHealth(i, s) \/ LwSignalled(i, s) \/ LwDeregister(i, s)

\* every plugin that was started has returned from Start for good: its
\* restart loop, serve task, health loop and handlers are gone, and so is
\* its socket file
CleanShutdown ==
  /\ mainPc = "returned"
  /\ \A i \in Constructed :
        /\ loopPc[i] \in {"none", "exited"}
        /\ hPc[i] \in {"none", "done"}
        /\ server[i] # "serving"
        /\ sockFile[deviceName[i]] = NoInst
        /\ \A s \in Streams : lw[i][s].pc \in {"none", "returned"}

\* C6 (P4, clean shutdown): after the outer stop is closed the program, as
\* long as it has not shut down cleanly, has a goroutine that can step: it
\* never comes to rest with a plugin still inside Start or a socket file
\* left, attached stream or not.
C6_CleanShutdown ==
  (stopClosed /\ Alive) => (CleanShutdown \/ ENABLED ProgramStep)

\* C7 (cancellation): the discovery task's send on newPlugins and the health
\* loop's send on the health channel do not stay blocked forever once the
\* stop signal they run under is closed, receiver or not.
C7_Cancellation ==
  /\ (stopClosed /\ scanPc = "send") ~> (scanPc # "send" \/ ~Alive)
  /\ \A i \in Inst :
        (chanStop[i] /\ Publishing(i)) ~> (~Publishing(i) \/ ~Alive)

\* the health the slots of a plugin carry: Healthy as built, then whatever a
\* ListAndWatch handler took from the health channel last
CurrentHealth(i) == IF delivered[i] = "none" THEN Healthy ELSE delivered[i]

\* stream s of plugin i is opened in this step: its handler sends the first
\* message
StreamOpens(i, s) ==
  lw[i][s].pc \in {"none", "returned"} /\ lw'[i][s].pc = "select"

\* m is a list of the N slots d0..d(N-1) of plugin i, all of health h
FirstMessage(m, i, h) ==
  /\ m.kind = "initial"
  /\ Len(m.devices) = MaxSlots
  /\ \A k \in 1..MaxSlots :
        /\ m.devices[k].ID = <<deviceName[i], k - 1>>
        /\ m.devices[k].Health = h

\* C8 (P2, as amended): the first message of every stream on a plugin built
\* with maxSlots = N for device d holds exactly N slots with the IDs
\* d0..d(N-1), all of one health: Healthy until a handler of the plugin has
\* taken a health value, the last value taken afterwards.
C8_SlotCount ==
  [][\A i \in Inst, s \in Streams :
        StreamOpens(i, s) => FirstMessage(lw'[i][s].last, i, CurrentHealth(i))]_vars

\* a stream opened after Unhealthy was delivered: its first message is
\* Unhealthy on every slot
C8_Witness ==
  \E i \in Constructed, s \in Streams :
     /\ lw[i][s].pc = "select"
     /\ FirstMessage(lw[i][s].last, i, Unhealthy)
     /\ delivered[i] = Unhealthy

\* C8 as claimed: the first message of every stream is Healthy on every slot
C8_Original ==
  [][\A i \in Inst, s \in Streams :
        StreamOpens(i, s) => FirstMessage(lw'[i][s].last, i, Healthy)]_vars

\* Healthy iff the operational state observed was OperUp
Expected(st) == IF st = "up" THEN Healthy ELSE Unhealthy

Uniform(m, h) == \A k \in 1..Len(m.devices) : m.devices[k].Health = h

\* a message with slots is sent on stream s of plugin i in this step
SlotMessageSent(i, s) ==
  /\ lw'[i][s].seq # lw[i][s].seq
  /\ lw'[i][s].last.kind \in {"initial", "health"}

C9_State ==
  \A i \in Inst :
     /\ Publishing(i) => hVal[i] = Expected(observed[i])
     /\ \A s \in Streams :
           \E h \in {Healthy, Unhealthy} : Uniform(lw[i][s].last, h)

C9_Step ==
  \A i \in Inst :
     \* the value is taken: a handler sends the whole list with that health
     /\ (Publishing(i) /\ hPc'[i] # hPc[i]) =>
           /\ hPc'[i] = "select"
           /\ \E s \in Streams :
                 /\ lw[i][s].pc = "select"
                 /\ SlotMessageSent(i, s)
                 /\ lw'[i][s].last.kind = "health"
                 /\ Len(lw'[i][s].last.devices) = MaxSlots
                 /\ Uniform(lw'[i][s].last, Expected(observed[i]))
     \* the handler attached while the value is pending sends nothing with
     \* slots before it
     /\ \A s \in Streams :
           (Publishing(i) /\ lw[i][s].pc = "select" /\ SlotMessageSent(i, s))
              => Uniform(lw'[i][s].last, Expected(observed[i]))
     \* the initial lookup of an absent link publishes Unhealthy, and the
     \* loop goes on (by the first conjunct, into its select)
     /\ (hPc[i] = "init" /\ hPc'[i] = "sendInitial" /\ observed'[i] = "absent")
           => hVal'[i] = Unhealthy

\* C9 (P3, as amended): the health loop publishes Healthy iff the operState
\* it observed last was OperUp (Unhealthy for an absent link, the loop going
\* on into its select); the handler in its select when a value is pending
\* sends no message with slots before the one that sets every slot to that
\* value; every message carries one health on all of its slots.
C9_HealthReflectsOperState == []C9_State /\ [][C9_Step]_vars

\* a link update with a changed state is pending on an attached stream
C9_Witness ==
  \E i \in Inst, s \in Streams :
     /\ hPc[i] = "send"
     /\ lw[i][s].pc = "select"
     /\ lw[i][s].last.kind = "health"
     /\ Len(lw[i][s].last.devices) = MaxSlots
     /\ ~Uniform(lw[i][s].last, hVal[i])

\* C9 as claimed: after a link update seen by the health loop the next
\* message with slots, on whatever stream, has the health of that update
C9_Original ==
  [][\A i \in Inst, s \in Streams :
        (hPc[i] = "send" /\ SlotMessageSent(i, s))
           => Uniform(lw'[i][s].last, Expected(observed[i]))]_vars

\* C10 (P7, deregistration message): a ListAndWatch handler that has
\* returned has sent the empty list exactly once, as its last message, and
\* while the connection was open, that is before the plugin's server was
\* stopped.  Stated for the shutdowns signalled by done, stop being open.
C10_DeregistrationMessage ==
  \A i \in Inst, s \in Streams :
     (lw[i][s].pc = "returned" /\ ~chanStop[i]) =>
       /\ lw[i][s].empties = 1
       /\ lw[i][s].last.kind = "empty"
       /\ lw[i][s].last.ok

\* the restart loops of the wrapper that have not been told to stop
OpenLoops == {l \in Loops : cdPc[l] # "none" /\ ~cdStop[l]}

\* C11 (P8, wrapper idempotence): whatever sequence of Start and Stop calls
\* a wrapper gets, it has exactly one restart loop with an open stop channel
\* while it is started and none while it is not (a second Start spawns
\* nothing), and no call fails: Stop on a wrapper that is not started closes
\* nothing, so no stop channel is closed twice.
C11_WrapperIdempotence ==
  /\ Alive
  /\ Cardinality(OpenLoops) = (IF cdStarted THEN 1 ELSE 0)
  /\ cdStarted <=> cdStopChan # 0
  /\ cdStarted => cdStopChan \in OpenLoops

\* Start has been called on a started wrapper and Stop on a stopped one
C11_Witness ==
  /\ cdNoops = {"Start", "Stop"}
  /\ cdStarted
  /\ Cardinality(OpenLoops) = 1

\* C12 (Initialized): in every state Initialized() is true iff every plugin
\* in the running map has initialized = true, hence true on the empty map.
C12_Initialized ==
  /\ Initialized <=> \A k \in DOMAIN startedPlugins :
                        initialized[startedPlugins[k].devicePlugin]
  /\ DOMAIN startedPlugins = {} => Initialized

\* two running plugins, one of them initialized: Initialized() is false
C12_Witness ==
  /\ Cardinality(DOMAIN startedPlugins) = 2
  /\ \E k \in DOMAIN startedPlugins : initialized[startedPlugins[k].devicePlugin]
  /\ \E k \in DOMAIN startedPlugins : ~initialized[startedPlugins[k].devicePlugin]
  /\ ~Initialized

\* C13 (Allocate): the response to an AllocateRequest with n container
\* requests, n >= 0, has exactly n ContainerResponses, each of them empty.
C13_Allocate ==
  allocOn # NoInst =>
    /\ Len(allocRes.ContainerResponses) = Len(allocReq.ContainerRequests)
    /\ \A k \in 1..Len(allocRes.ContainerResponses) :
          allocRes.ContainerResponses[k] = EmptyContainerResponse

\* the discovery task takes a bridge RTM_NEWLINK update in this step
DiscoveryConstructs == scanPc = "select" /\ scanPc' = "send"

\* the main loop receives the plugin the discovery task is sending
DiscoveryDelivers == scanPc = "send" /\ scanPc' = "select"

C14_Step ==
  \* a fresh plugin for the bridge of the update, the running map untouched
  /\ DiscoveryConstructs =>
        /\ pending' \in Inst \ Constructed
        /\ deviceName'[pending'] \in Names
        /\ devs'[pending'] = NewDevs(deviceName'[pending'], MaxSlots)
        /\ loopPc'[pending'] = "none"
        /\ startedPlugins' = startedPlugins
  \* running[d] wraps the new instance, whose restart loop is spawned; the
  \* wrapper it replaces has had Stop called
  /\ DiscoveryDelivers =>
        LET d == deviceName[pending]
        IN  /\ d \in DOMAIN startedPlugins'
            /\ startedPlugins'[d] = Wrapper(pending)
            /\ loopPc'[pending] = "callStart"
            /\ d \in DOMAIN startedPlugins =>
                  chanStop'[startedPlugins[d].stopChan]
            /\ \A k \in DOMAIN startedPlugins \ {d} :
                  k \in DOMAIN startedPlugins' /\ startedPlugins'[k] = startedPlugins[k]
  \* nothing else, an update for another kind of link included, changes the
  \* running map, but for Run starting the permanent plugins and stopping
  \* them all
  /\ startedPlugins' # startedPlugins =>
        \/ DiscoveryDelivers
        \/ mainPc = "new" /\ mainPc' = "loop"
        \/ mainPc = "loop" /\ mainPc' = "returned"

\* C14 (runtime discovery): while stop is open, a bridge RTM_NEWLINK update
\* taken by the discovery task makes a fresh plugin for that bridge, which
\* the main loop receives and starts: running[d] then wraps the new instance
\* and the wrapper it replaces has had Stop called; no other update changes
\* the running map.
C14_RuntimeDiscovery ==
  /\ [][C14_Step]_vars
  /\ (scanPc = "send" /\ ~stopClosed) ~> (scanPc = "select" \/ stopClosed)

\* a discovered plugin runs in place of the stopped plugin of its bridge,
\* stop being open
C14_Witness ==
  /\ mainPc = "loop"
  /\ ~stopClosed
  /\ scanPc = "select"
  /\ \E i, j \in Constructed :
        /\ i # j
        /\ deviceName[i] = deviceName[j]
        /\ chanStop[j] /\ ~chanStop[i]
        /\ deviceName[i] \in DOMAIN startedPlugins
        /\ startedPlugins[deviceName[i]] = Wrapper(i)

C15_Step ==
  \* the key set of the running map does not shrink while stop is open
  /\ ~stopClosed => DOMAIN startedPlugins \subseteq DOMAIN startedPlugins'
  \* the discovery task drops an RTM_DELLINK update
  /\ (scanSeen' # scanSeen /\ scanSeen' = "RTM_DELLINK") =>
        /\ scanPc' = "select"
        /\ UNCHANGED <<supVars, pending, plugVars, loopVars, healthVars, lw>>
  \* the health loop of the bridge takes the update of the deleted link, whose
  \* operState is not OperUp: it publishes Unhealthy, plugin and map as before
  /\ \A i \in Inst :
        (hPc[i] = "select" /\ hPc'[i] = "send" /\ observed'[i] # "up") =>
          /\ hVal'[i] = Unhealthy
          /\ UNCHANGED <<supVars, plugVars, loopVars>>
  \* and the handler sends it on every slot
  /\ \A i \in Inst, s \in Streams :
        (hPc[i] = "send" /\ hVal[i] = Unhealthy /\ SlotMessageSent(i, s)
           /\ lw[i][s].pc = "select")
          => /\ Uniform(lw'[i][s].last, Unhealthy)
             /\ Len(lw'[i][s].last.devices) = MaxSlots
             /\ UNCHANGED <<supVars, loopVars>>

\* C15 (discovery is additive): until stop is closed the key set of the
\* running map never shrinks; an RTM_DELLINK update leaves the map and the
\* plugin instance as they are, the deletion showing only as Unhealthy on
\* the plugin's list-and-watch stream.
C15_AdditiveDiscovery == [][C15_Step]_vars

\* the bridge was deleted: the discovery task has dropped the update, the
\* plugin is still running and its stream has been sent Unhealthy
C15_Witness ==
  /\ scanSeen = "RTM_DELLINK"
  /\ ~stopClosed
  /\ \E i \in Constructed, s \in Streams :
        /\ deviceName[i] \in DOMAIN startedPlugins
        /\ startedPlugins[deviceName[i]] = Wrapper(i)
        /\ observed[i] = "down"
        /\ hPc[i] = "select"
        /\ lw[i][s].pc = "select"
        /\ lw[i][s].last.kind = "health"
        /\ Len(lw[i][s].last.devices) = MaxSlots
        /\ Uniform(lw[i][s].last, Unhealthy)

\* C16 (runtime subscription failure): once the discovery task has returned
\* on a failed link subscription, the global stop is closed and Run has
\* stopped every running plugin and returned nil, or is alive in its loop on
\* the way there.  (The double close of stop is set apart.)
C16_SubscriptionFailure ==
  (scanPc = "failed" /\ panicked # "close of closed channel: stop") =>
     /\ stopClosed
     /\ \/ mainPc = "returned" /\ DOMAIN startedPlugins = {}
        \/ Alive /\ mainPc = "loop"

\* C17 (no double close): no one-shot signal is closed twice: the process
\* never dies of closing the outer stop, a wrapper's stop channel or a
\* plugin's done or deregistered channel a second time.
C17_NoDoubleClose ==
  panicked \notin {"close of closed channel: stop",
                   "close of closed channel: stopChan",
                   "close of closed channel: done",
                   "close of closed channel: deregistered"}

\* inside stopDevicePlugin, from its select on
InStopDevicePlugin(i) ==
  loopPc[i] \in {"sdpWait", "sdpStop", "sdpUninit", "sdpCleanup"}

\* C18 (stop procedure order): stopDevicePlugin closes done before anything
\* else: while it waits for deregistered, stops the server, clears
\* initialized and removes the socket file, done is closed, so that an
\* attached handler is signalled within the grace window on every Start exit.
C18_StopOrder ==
  \A i \in Inst : InStopDevicePlugin(i) => chanDone[i]

\* C19 (no concurrent Start on one plugin): for any sequence of Start and
\* Stop calls on a wrapper, at most one invocation of plugin.Start on its
\* plugin is in progress.
C19_NoConcurrentStart ==
  Cardinality({l \in Loops : cdPc[l] = "inStart"}) <= 1

\* C20 (Stop ends the restart loop): a restart loop whose stop channel has
\* been closed, Stop() having returned, makes no new call to plugin.Start.
C20_StopEndsLoop ==
  [][\A l \in Loops :
        (cdStop[l] /\ cdPc[l] # "inStart") => cdPc'[l] # "inStart"]_vars

\* the health loop task is running: launched by this Start, not yet returned
HealthRunning(i) == hPc[i] \in {"init", "sendInitial", "select", "send"}

\* C21 (invariant I1): in every reachable state of a plugin, initialized is
\* true exactly when its server is listening, it registered in the current
\* Start and its health loop is running; so initialized is false as soon as
\* the health loop has returned or the server was stopped.
C21_I1 ==
  \A i \in Inst :
     initialized[i] <=>
        (server[i] = "serving" /\ registered[i] /\ HealthRunning(i))

\* inside BridgeDevicePlugin.Start, between cleanup() and setInitialized(true)
StartBeforeInitialized(i) ==
  loopPc[i] \in {"listen", "probe", "register", "launch"}

C22_State ==
  \A i \in Inst :
     /\ StartBeforeInitialized(i) => ~GetInitialized(i)
     /\ (GetInitialized(i) /\ loopPc[i] = "wait") => registered[i]

C22_Step ==
  \A i \in Inst :
     (~initialized[i] /\ initialized'[i]) =>
        /\ loopPc[i] = "launch"
        /\ loopPc'[i] = "wait"
        /\ server[i] = "serving"
        /\ registered[i]
        /\ hPc'[i] = "init"

\* C22 (initialization ordering): within one Start, initialized turns true
\* only in the step after the listener was created, the probe and the
\* registration succeeded and the health loop was launched; from the
\* beginning of a Start up to that step GetInitialized() returns false, also
\* in a Start that follows an earlier, successful one.
C22_InitializationOrdering == []C22_State /\ [][C22_Step]_vars

\* a restarted plugin, initialized again after its second registration
C22_Witness ==
  \E i \in Inst :
     /\ GetInitialized(i)
     /\ loopPc[i] = "wait"
     /\ registered[i]
     /\ waited[i] > 0

\* the stop procedure of a Start whose registration failed, up to the
\* restart loop's wait after it
AfterRegisterFailure(i) ==
  /\ startErr[i] = ErrRegister
  /\ loopPc[i] \in {"sdpWait", "sdpStop", "sdpUninit", "sdpCleanup", "ret", "backoff"}

C23_State ==
  \A i \in Inst :
     AfterRegisterFailure(i) =>
        /\ ~initialized[i]
        /\ ~registered[i]
        /\ hPc[i] = "none"
        /\ loopPc[i] \in {"ret", "backoff"} =>
              /\ server[i] = "stopped"
              /\ sockFile[deviceName[i]] # i
              /\ chanDone[i]

C23_Step ==
  \A i \in Inst :
     AfterRegisterFailure(i) =>
        /\ (loopPc[i] = "ret" /\ loopPc'[i] # "ret") =>
              /\ loopPc'[i] = "backoff"
              /\ retries'[i] = Min(retries[i] + 1, LastIndex)
              /\ waited'[i] = defaultBackoffTime[retries'[i] + 1]
        /\ (loopPc[i] = "backoff" /\ loopPc'[i] # "backoff") =>
              \/ ~chanStop[i] /\ loopPc'[i] = "callStart"
              \/ chanStop[i] /\ loopPc'[i] = "exited"

\* C23 (registration failure): when register() fails, Start returns the
\* error through the stop procedure without setting initialized and without
\* launching the health loop; on its return the server is stopped, the
\* socket file is gone and done is closed; the restart loop then moves the
\* retry index one step up the backoff table (saturating at the last entry)
\* and, after that wait, calls Start again unless its stop channel is closed,
\* in which case it returns.
C23_RegistrationFailure == []C23_State /\ [][C23_Step]_vars

\* the third registration failure in a row, the loop waiting to try again
C23_Witness ==
  \E i \in Inst :
     /\ AfterRegisterFailure(i)
     /\ loopPc[i] = "backoff"
     /\ retries[i] = LastIndex
     /\ ~chanStop[i]

\* Start returned before its defer dpi.stopDevicePlugin() was registered
EarlyReturn(i) == startErr[i] \in {ErrCleanup, ErrListen}

\* dev.Start has just returned to the restart loop
StartReturned(i) == loopPc[i] = "ret"

\* C24 (stop procedure on the exits after the listener was created): when
\* Start returns after a probe timeout, a registration failure or the end of
\* the health loop, stopDevicePlugin has run: done is closed, the server is
\* stopped, initialized is false and the socket file of this Start is gone.
\* When cleanup() or net.Listen fails, Start returns the error at once and
\* the stop procedure is not run: initialized is false and this Start left
\* no socket file, but the done channel it made stays open.
C24_StopProcedure ==
  \A i \in Inst :
     StartReturned(i) =>
        /\ ~initialized[i]
        /\ sockFile[deviceName[i]] # i
        /\ EarlyReturn(i) => ~chanDone[i]
        /\ ~EarlyReturn(i) => (chanDone[i] /\ server[i] = "stopped")

\* a restart whose net.Listen failed, after a Start that had served
C24_Witness ==
  \E i \in Inst :
     /\ StartReturned(i)
     /\ startErr[i] = ErrListen
     /\ server[i] = "stopped"
     /\ ~chanDone[i]

\* C24 as claimed: on every exit path of Start, the two early ones
\* included, done is closed, initialized is false and no socket file of this
\* Start remains once Start has returned.
C24_Original ==
  \A i \in Inst :
     StartReturned(i) =>
        /\ chanDone[i]
        /\ ~initialized[i]
        /\ sockFile[deviceName[i]] # i

\* the supervisor deletes the entry of bridge n from startedPlugins
EntryDeleted(n) ==
  n \in DOMAIN startedPlugins /\ n \notin DOMAIN startedPlugins'

\* C25 (shutdown ordering): once stop is closed, the entry of a plugin is
\* deleted from startedPlugins only after its health loop has returned, its
\* server has stopped serving and its Start has finished.
C25_ShutdownOrdering ==
  [][\A n \in Names :
        (stopClosed /\ EntryDeleted(n)) =>
           LET i == startedPlugins[n].devicePlugin
           IN  /\ ~InStart(i)
               /\ ~HealthRunning(i)
               /\ server[i] # "serving"]_vars

\* healthCheck is blocked in the send of its initial bridge check
InitialPending(i) == hPc[i] = "sendInitial"

C26_Step ==
  \A i \in Inst :
     (InitialPending(i) /\ ~InitialPending(i)') =>
        /\ registered[i]
        /\ hPc'[i] = "select"
        /\ delivered'[i] = hVal[i]
        /\ \E s \in Streams :
              /\ lw[i][s].pc = "select"
              /\ SlotMessageSent(i, s)
              /\ lw'[i][s].last.kind = "health"
              /\ Len(lw'[i][s].last.devices) = MaxSlots
              /\ Uniform(lw'[i][s].last, hVal[i])

C26_Delivery ==
  \A i \in Inst, s \in Streams :
     (InitialPending(i) /\ lw[i][s].pc = "select" /\ ~chanStop[i])
        ~> (~InitialPending(i) \/ chanStop[i] \/ ~Alive)

\* C26 (initial health is not dropped): the value of the initial bridge
\* check stays pending in the health loop's send until a ListAndWatch handler
\* takes it, and that handler sends the full device list with that health on
\* every slot; a handler in its select, whether its stream was opened before
\* or after the health loop published, takes the value while stop is open
\* and the process runs.
C26_InitialHealthDelivered == [][C26_Step]_vars /\ C26_Delivery

\* the initial check found no bridge, and its Unhealthy reached a stream
C26_Witness ==
  \E i \in Inst, s \in Streams :
     /\ hPc[i] = "select"
     /\ observed[i] = "absent"
     /\ delivered[i] = Unhealthy
     /\ lw[i][s].last.kind = "health"
     /\ Len(lw[i][s].last.devices) = MaxSlots
     /\ Uniform(lw[i][s].last, Unhealthy)

\* plugin instance i takes a step of its Start or of its stop procedure
PluginSteps(i) == loopPc'[i] # loopPc[i]

\* the socket file of bridge n, bound by instance j, is removed in this step
SocketRemoved(n, j) == sockFile[n] = j /\ sockFile'[n] = NoInst

\* C27 (socket ownership): a plugin instance removes a socket file only if
\* it bound that file itself or if the instance that bound it is no longer
\* serving; neither the stop procedure of a replaced instance nor the initial
\* cleanup of its replacement removes the socket of a serving instance.
C27_SocketOwnership ==
  [][\A n \in Names, i \in Inst, j \in Inst :
        (PluginSteps(i) /\ SocketRemoved(n, j)) =>
           (j = i \/ server[j] # "serving")]_vars

\* Run's select takes its newPlugins case in this step and hands the value
\* received to startNewPlugin
NewPluginsCaseTaken ==
  /\ mainPc = "loop"
  /\ \/ startedPlugins' # startedPlugins /\ mainPc' = "loop"
     \/ panicked = "none" /\ panicked' = "nil dereference in startNewPlugin"

\* C28 (the main loop only starts real plugins): whenever Run takes the
\* newPlugins case, the value it passes to startNewPlugin is a plugin the
\* discovery task constructed and is sending; it is never the nil value a
\* closed newPlugins yields, however the discovery task's exit interleaves
\* with Run's select.
C28_RealPlugins ==
  [][NewPluginsCaseTaken =>
        /\ ~newPluginsClosed
        /\ scanPc = "send"
        /\ pending \in Constructed
        /\ panicked' = "none"]_vars
====
